---- MODULE Spec2Model ----
(***************************************************************************)
(* Model of src/main.py: a Telegram bot that turns a video link into a     *)
(* recipe.  handle_message runs process_url on a worker thread of the      *)
(* bot; process_url downloads the video, calls four language-model         *)
(* operations, builds a caption, sends the video and cleans up its files.  *)
(*                                                                         *)
(* Texts are TLA+ strings.  A Python value that may be None is a sequence  *)
(* of length 0 (None) or 1 (the string).                                   *)
(*                                                                         *)
(* The transport is taken at its contract: bot.reply_to delivers a text    *)
(* and returns; bot.send_video delivers or raises.  The width, height and  *)
(* duration of a video are passed through to send_video and decide         *)
(* nothing, so they are left out.  The file system is the set of paths at  *)
(* which a file exists; a download may or may not leave a file behind,     *)
(* whether it reports success or not.                                      *)
(***************************************************************************)
EXTENDS Integers, Sequences, FiniteSets, TLC

VARIABLES
    env,      \* the process environment: tools on PATH, the two secrets
    boot,     \* main(): "start", "exited" (sys.exit(1)), "polling"; or "imported"
    now,      \* int(time.time()) when the clock was last read, in seconds
    fs,       \* the local file system: the set of paths at which a file exists
    handled,  \* number of messages handed to handle_message so far
    pc,       \* per worker thread: the position of its handler
    loc,      \* per worker thread: the local variables of process_url
    log,      \* per worker thread: the calls and replies of the current run, in order
    call      \* a direct call of one function of the module (no bot running)

vars == <<env, boot, now, fs, handled, pc, loc, log, call>>

---------------------------------------------------------------------------
(* Bounds of the model *)

MaxTextLen == 1030      \* direct calls: texts of every length 0..MaxTextLen
ShortLen == 2           \* length of the short texts the pipeline handles
MaxPolls == 2           \* polls of a PROCESSING upload that the model follows
MaxMessages == 2        \* messages handed to the bot
MaxTime == 1            \* clock seconds 0..MaxTime
MaxChats == 1           \* chat ids 1..MaxChats

(* Program constants *)

max_len == 1024
overhead == 7
NumThreads == 2         \* TeleBot(threaded=True): telebot's pool of two workers

Threads == 1..NumThreads
Chats == 1..MaxChats

---------------------------------------------------------------------------
(* Values *)

None == <<>>
Some(s) == <<s>>
Unset == <<"unset", "unset">>   \* a local that has not been assigned yet

\* Python truthiness of an Optional[str]: None and "" are falsy
Truthy(v) == v # None /\ v # Unset /\ v[1] # ""

\* Python's (a or b)
PyOr(a, b) == IF Truthy(a) THEN a ELSE b

Min(a, b) == IF a <= b THEN a ELSE b

RECURSIVE Rep(_, _)
Rep(c, n) ==
    IF n <= 0 THEN ""
    ELSE LET h == Rep(c, n \div 2)
         IN IF n % 2 = 0 THEN h \o h ELSE h \o h \o c

\* A text of length n written by `who`: a capital, then a tail of one letter
Text(who, n) ==
    IF n <= 0 THEN ""
    ELSE CASE who = "d" -> "D" \o Rep("d", n - 1)
           [] who = "r" -> "R" \o Rep("r", n - 1)
           [] who = "m" -> "M" \o Rep("m", n - 1)
           [] who = "n" -> "N" \o Rep("n", n - 1)
           [] who = "c" -> "C" \o Rep("c", n - 1)
           [] OTHER     -> "F" \o Rep("f", n - 1)

\* Python's s[:n] for n >= 0
Prefix(s, n) == SubSeq(s, 1, Min(n, Len(s)))

EndsWith(s, suf) ==
    /\ Len(s) >= Len(suf)
    /\ SubSeq(s, Len(s) - Len(suf) + 1, Len(s)) = suf

---------------------------------------------------------------------------
(* process_url, lines 250-258: the caption *)

\* The three-backquote marker.  A backquote cannot be written in a TLA+ string:
\* each backquote is written as a tilde, which no text of the model contains.
Fence == "~~~"
TruncMarker == "\n...(truncated)"

truncate_at_no_overhead == max_len - Len(TruncMarker)
truncate_at == max_len - overhead - Len(TruncMarker)

NeedsTruncationWrapped(text) == Len(text) + overhead > max_len
NeedsTruncation(text) == Len(text) > max_len

caption_text(text) ==
    IF NeedsTruncation(text)
    THEN Prefix(text, truncate_at) \o TruncMarker
    ELSE text

final_caption(text) == Fence \o caption_text(text) \o Fence

---------------------------------------------------------------------------
(* The language-model subsystem, as seen by one call: what the remote end  *)
(* does with a request.                                                    *)

NetworkError == [kind |-> "network_error", text |-> ""]
ServiceError == [kind |-> "service_error", text |-> ""]
Generated(s) == [kind |-> "text", text |-> s]

Failures == {NetworkError, ServiceError}

\* generate_content(prompt) and response.text inside try/except Exception
GenerateOrNone(remote) ==
    IF remote.kind = "text" THEN Some(remote.text) ELSE None

NoKeyConvert == "API key not found, cannot convert to metric."
NoKeyAnalyze == "API key not found, cannot analyze audio."
NoKeyCombine == "API key not found, cannot combine recipe."

refine_with_gemini(key, remote) ==
    IF ~key THEN None ELSE GenerateOrNone(remote)

convert_recipe_to_metric(key, remote) ==
    IF ~key THEN Some(NoKeyConvert) ELSE GenerateOrNone(remote)

combine_recipe_and_audio(key, remote) ==
    IF ~key THEN Some(NoKeyCombine) ELSE GenerateOrNone(remote)

(* analyze_audio_with_gemini runs in steps: the upload, the polls of a     *)
(* PROCESSING file, then the generation request.  A frame is its position: *)
(*   at    "poll" (in or before the while loop) or "returned"              *)
(*   state the last remote state of the uploaded file                      *)
(*   polls the get_file requests made                                      *)
(*   reqs  the remote requests issued, in order                            *)
(*   ret   the value returned                                              *)

FileStates == {"PROCESSING", "ACTIVE", "FAILED"}
Uploaded(st) == [kind |-> "file", state |-> st]
UploadError == [kind |-> "network_error", state |-> "FAILED"]
UploadOutcomes == {Uploaded(st) : st \in FileStates} \cup {UploadError}

AnalyzeReturned(reqs, polls, v) ==
    [at |-> "returned", state |-> "", polls |-> polls, reqs |-> reqs, ret |-> v]

\* lines 104-113: the key check and upload_file
analyze_begin(key, up) ==
    IF ~key THEN AnalyzeReturned(<<>>, 0, Some(NoKeyAnalyze))
    ELSE IF up.kind # "file" THEN AnalyzeReturned(<<"upload_file">>, 0, None)
    ELSE [at |-> "poll", state |-> up.state, polls |-> 0,
          reqs |-> <<"upload_file">>, ret |-> Unset]

\* lines 115-118: one turn of the while loop (the guard is in the actions)
analyze_poll(fr, got) ==
    IF got.kind # "file"
    THEN AnalyzeReturned(Append(fr.reqs, "get_file"), fr.polls + 1, None)
    ELSE [fr EXCEPT !.state = got.state, !.polls = @ + 1,
                    !.reqs = Append(@, "get_file")]

\* lines 122-134: after the loop
analyze_generate_unchecked(fr, remote) ==
    AnalyzeReturned(Append(fr.reqs, "generate_content"), fr.polls,
                    GenerateOrNone(remote))
analyze_generate(fr, remote) ==
    IF fr.state = "FAILED" THEN AnalyzeReturned(fr.reqs, fr.polls, None)
    ELSE AnalyzeReturned(Append(fr.reqs, "generate_content"), fr.polls,
                         GenerateOrNone(remote))

InLoop(fr) == fr.at = "poll" /\ fr.state = "PROCESSING"
PastLoop(fr) == fr.at = "poll" /\ fr.state # "PROCESSING"

NoFrame == [at |-> "none", state |-> "", polls |-> 0, reqs |-> <<>>, ret |-> Unset]

---------------------------------------------------------------------------
(* The media-download subsystem *)

\* download_video: extract_info returned (the description is the provider's)
\* or raised
download_video(raised, description) ==
    IF raised THEN [status |-> "failed", description |-> None]
    ELSE [status |-> "success", description |-> description]

\* download_audio: success is "no exception and a file at the target path"
download_audio(raised, exists) ==
    IF raised THEN "failed"
    ELSE IF exists THEN "success" ELSE "failed"

\* Video.__post_init__ and Audio.__post_init__: the path of an asset
video_filepath(chat_id, time) == <<"video", chat_id, time>>
audio_filepath(chat_id, time) == <<"audio", chat_id, time>>

---------------------------------------------------------------------------
(* What the pipeline meets: the texts the provider and the remote model    *)
(* may hand back.  Each stage writes with its own letter, so that a text   *)
(* is known by its origin; the lengths put the final text below, within    *)
(* "overhead" of, and above max_len.                                       *)

MidLen == max_len - 5
LongLen == max_len + 1

Descriptions == {None, Some(""), Some(Text("d", ShortLen))}
RefineRemotes == Failures \cup {Generated(""), Generated(Text("r", ShortLen))}
ConvertRemotes == Failures \cup {Generated(""), Generated(Text("m", MidLen))}
NotesRemotes == Failures \cup {Generated(""), Generated(Text("n", ShortLen))}
CombineRemotes == Failures \cup {Generated(""), Generated(Text("c", LongLen))}

---------------------------------------------------------------------------
(* The state of one run of process_url *)

NoLocals ==
    [chat_id |-> 0,
     video_filepath |-> <<"none", 0, 0>>,
     audio_filepath |-> <<"none", 0, 0>>,
     description |-> None,
     download_status |-> "unset",
     video_made |-> FALSE,       \* whether the download of this run wrote the video
     refined_recipe |-> Unset,
     converted |-> FALSE,        \* whether the conversion returned a text
     metric_recipe |-> Unset,
     audio_download_status |-> "unset",
     audio_made |-> FALSE,       \* whether the download of this run wrote the audio
     analysis |-> NoFrame,
     audio_notes |-> Unset,
     combine_args |-> Unset,     \* what combine_recipe_and_audio was called with
     combined_recipe |-> Unset,
     final_recipe_text |-> Unset,
     final_caption |-> Unset,
     delivery |-> "none",
     raised |-> FALSE]

\* a direct call: the function, its text argument, the frame of an audio
\* analysis, whether a remote request of the call failed, the value returned
NoCall == [fn |-> "none", arg |-> "", frame |-> NoFrame, fault |-> FALSE, ret |-> Unset]

Reply(what) == <<"reply_to", what>>
Called(fn) == <<"call", fn>>
Sent(kind, caption) == <<kind, caption>>

Replies(l) == SelectSeq(l, LAMBDA e : e[1] = "reply_to")
Calls(l) == SelectSeq(l, LAMBDA e : e[1] = "call")
Sends(l) == SelectSeq(l, LAMBDA e : e[1] \in {"send_formatted", "send_plain"})

FailureReplies ==
    {"download_failed", "no_description", "refine_failed", "unexpected_error"}
Failed(l) == SelectSeq(l, LAMBDA e : e[1] = "reply_to" /\ e[2] \in FailureReplies)

HasCall(l, fn) == \E i \in 1..Len(l) : l[i] = Called(fn)

---------------------------------------------------------------------------
(* Start-up *)

Init ==
    /\ env \in [tools : BOOLEAN, token : BOOLEAN, key : BOOLEAN]
    /\ boot = "start"
    /\ now = 0
    /\ fs = {}
    /\ handled = 0
    /\ pc = [t \in Threads |-> "idle"]
    /\ loc = [t \in Threads |-> NoLocals]
    /\ log = [t \in Threads |-> <<>>]
    /\ call = NoCall

\* main(), lines 311-322
Main ==
    /\ boot = "start"
    /\ boot' = IF env.tools /\ env.token /\ env.key THEN "polling" ELSE "exited"
    /\ UNCHANGED <<env, now, fs, handled, pc, loc, log, call>>

---------------------------------------------------------------------------
(* handle_message and process_url, on worker thread t *)

Free(t) == pc[t] \in {"idle", "done"}

\* handle_message (lines 300-308) and the head of process_url (213-218).
\* The workers of the pool are alike: a message goes to the first free one.
\* The clock is read here and nowhere else; it has not gone back.
HandleMessage(t) ==
    /\ boot = "polling"
    /\ Free(t)
    /\ \A u \in Threads : u < t => ~Free(u)
    /\ handled < MaxMessages
    /\ handled' = handled + 1
    /\ \E chat \in Chats, hasUrl \in BOOLEAN, time \in now..MaxTime :
         /\ now' = time
         /\ IF ~hasUrl
            THEN /\ pc' = [pc EXCEPT ![t] = "idle"]
                 /\ loc' = [loc EXCEPT ![t] = NoLocals]
                 /\ log' = [log EXCEPT ![t] = <<Reply("no_url")>>]
            ELSE /\ pc' = [pc EXCEPT ![t] = "download_video"]
                 /\ loc' = [loc EXCEPT ![t] =
                               [NoLocals EXCEPT
                                   !.chat_id = chat,
                                   !.video_filepath = video_filepath(chat, time),
                                   !.audio_filepath = audio_filepath(chat, time)]]
                 /\ log' = [log EXCEPT ![t] = <<Reply("fetching")>>]
    /\ UNCHANGED <<env, boot, fs, call>>

\* lines 221-230: what follows the download (the reply sent, the next position)
AfterDownloadNoReturn(status, description) ==
    IF status = "failed"
    THEN [reply |-> "download_failed", next |-> "refine"]
    ELSE IF ~Truthy(description)
    THEN [reply |-> "no_description", next |-> "cleanup_video"]
    ELSE [reply |-> "refining", next |-> "refine"]
AfterDownloadOnlyNone(status, description) ==
    IF status = "failed"
    THEN [reply |-> "download_failed", next |-> "cleanup_video"]
    ELSE IF description = None
    THEN [reply |-> "no_description", next |-> "cleanup_video"]
    ELSE [reply |-> "refining", next |-> "refine"]
AfterDownload(status, description) ==
    IF status = "failed"
    THEN [reply |-> "download_failed", next |-> "cleanup_video"]
    ELSE IF ~Truthy(description)
    THEN [reply |-> "no_description", next |-> "cleanup_video"]
    ELSE [reply |-> "refining", next |-> "refine"]

\* lines 219-230
DownloadVideo(t) ==
    /\ pc[t] = "download_video"
    /\ \E raised \in BOOLEAN, made \in BOOLEAN, d \in Descriptions :
         LET r == download_video(raised, d)
             b == AfterDownload(r.status, r.description)
         IN /\ raised => d = None
            /\ fs' = IF made THEN fs \cup {loc[t].video_filepath} ELSE fs
            /\ loc' = [loc EXCEPT ![t].download_status = r.status,
                                  ![t].video_made = made,
                                  ![t].description = r.description]
            /\ log' = [log EXCEPT ![t] =
                          @ \o <<Called("download_video"), Reply(b.reply)>>]
            /\ pc' = [pc EXCEPT ![t] = b.next]
    /\ UNCHANGED <<env, boot, now, handled, call>>

\* lines 232-234: what follows the refinement
AfterRefineNoReturn(refined) ==
    IF ~Truthy(refined)
    THEN [reply |-> <<Reply("refine_failed")>>, next |-> "convert"]
    ELSE [reply |-> <<>>, next |-> "convert"]
AfterRefineOnlyNone(refined) ==
    IF refined = None
    THEN [reply |-> <<Reply("refine_failed")>>, next |-> "cleanup_video"]
    ELSE [reply |-> <<>>, next |-> "convert"]
AfterRefine(refined) ==
    IF ~Truthy(refined)
    THEN [reply |-> <<Reply("refine_failed")>>, next |-> "cleanup_video"]
    ELSE [reply |-> <<>>, next |-> "convert"]

\* lines 231-234
Refine(t) ==
    /\ pc[t] = "refine"
    /\ \E remote \in RefineRemotes :
         LET r == refine_with_gemini(env.key, remote)
             b == AfterRefine(r)
         IN /\ loc' = [loc EXCEPT ![t].refined_recipe = r]
            /\ log' = [log EXCEPT ![t] =
                          Append(@, Called("refine_with_gemini")) \o b.reply]
            /\ pc' = [pc EXCEPT ![t] = b.next]
    /\ UNCHANGED <<env, boot, now, fs, handled, call>>

\* line 236
MetricOrNothing(converted, refined) == converted
MetricOrRefined(converted, refined) == PyOr(converted, refined)

Convert(t) ==
    /\ pc[t] = "convert"
    /\ \E remote \in ConvertRemotes :
         LET r == convert_recipe_to_metric(env.key, remote)
         IN loc' = [loc EXCEPT ![t].converted = Truthy(r),
                               ![t].metric_recipe =
                                  MetricOrRefined(r, loc[t].refined_recipe)]
    /\ log' = [log EXCEPT ![t] = Append(@, Called("convert_recipe_to_metric"))]
    /\ pc' = [pc EXCEPT ![t] = "download_audio"]
    /\ UNCHANGED <<env, boot, now, fs, handled, call>>

\* lines 238-241
DownloadAudio(t) ==
    /\ pc[t] = "download_audio"
    /\ \E raised \in BOOLEAN, made \in BOOLEAN :
         LET fs2 == IF made THEN fs \cup {loc[t].audio_filepath} ELSE fs
             st == download_audio(raised, loc[t].audio_filepath \in fs2)
         IN /\ fs' = fs2
            /\ loc' = [loc EXCEPT ![t].audio_download_status = st,
                                  ![t].audio_made = made,
                                  ![t].final_recipe_text = loc[t].metric_recipe]
            /\ pc' = [pc EXCEPT ![t] = IF st = "success" THEN "analyze" ELSE "assemble"]
    /\ log' = [log EXCEPT ![t] = Append(@, Called("download_audio"))]
    /\ UNCHANGED <<env, boot, now, handled, call>>

\* lines 242-243: where process_url goes once analyze_audio_with_gemini is at fr
\* (the frame of the call is gone once it has returned)
AnalyzedOrRetry(t, fr) ==
    IF fr.at = "returned"
    THEN /\ loc' = [loc EXCEPT ![t].analysis = NoFrame, ![t].audio_notes = fr.ret]
         /\ pc' = [pc EXCEPT ![t] = IF Truthy(fr.ret) THEN "combine"
                                    ELSE "download_audio"]
    ELSE /\ loc' = [loc EXCEPT ![t].analysis = fr]
         /\ pc' = pc
AnalyzedOrAbort(t, fr) ==
    IF fr.at = "returned"
    THEN /\ loc' = [loc EXCEPT ![t].analysis = NoFrame, ![t].audio_notes = fr.ret]
         /\ pc' = [pc EXCEPT ![t] = IF Truthy(fr.ret) THEN "combine" ELSE "except"]
    ELSE /\ loc' = [loc EXCEPT ![t].analysis = fr]
         /\ pc' = pc
Analyzed(t, fr) ==
    IF fr.at = "returned"
    THEN /\ loc' = [loc EXCEPT ![t].analysis = NoFrame, ![t].audio_notes = fr.ret]
         /\ pc' = [pc EXCEPT ![t] = IF Truthy(fr.ret) THEN "combine" ELSE "assemble"]
    ELSE /\ loc' = [loc EXCEPT ![t].analysis = fr]
         /\ pc' = pc

AnalyzeBegin(t) ==
    /\ pc[t] = "analyze"
    /\ loc[t].analysis.at = "none"
    /\ \E up \in UploadOutcomes : Analyzed(t, analyze_begin(env.key, up))
    /\ log' = [log EXCEPT ![t] = Append(@, Called("analyze_audio_with_gemini"))]
    /\ UNCHANGED <<env, boot, now, fs, handled, call>>

AnalyzePoll(t) ==
    /\ pc[t] = "analyze"
    /\ InLoop(loc[t].analysis)
    /\ \E got \in UploadOutcomes :
         /\ loc[t].analysis.polls + 1 >= MaxPolls => got # Uploaded("PROCESSING")
         /\ Analyzed(t, analyze_poll(loc[t].analysis, got))
    /\ UNCHANGED <<env, boot, now, fs, handled, log, call>>

AnalyzeGenerate(t) ==
    /\ pc[t] = "analyze"
    /\ PastLoop(loc[t].analysis)
    /\ \E remote \in NotesRemotes :
         Analyzed(t, analyze_generate(loc[t].analysis, remote))
    /\ UNCHANGED <<env, boot, now, fs, handled, log, call>>

\* line 244: the arguments of combine_recipe_and_audio, from the locals l
CombineArgsRefined(l) == <<l.refined_recipe, l.audio_notes>>
CombineArgs(l) == <<l.metric_recipe, l.audio_notes>>

\* lines 244-246
Combine(t) ==
    /\ pc[t] = "combine"
    /\ \E remote \in CombineRemotes :
         LET r == combine_recipe_and_audio(env.key, remote)
         IN loc' = [loc EXCEPT ![t].combine_args = CombineArgs(loc[t]),
                               ![t].combined_recipe = r,
                               ![t].final_recipe_text =
                                   IF Truthy(r) THEN r ELSE @]
    /\ log' = [log EXCEPT ![t] = Append(@, Called("combine_recipe_and_audio"))]
    /\ pc' = [pc EXCEPT ![t] = "assemble"]
    /\ UNCHANGED <<env, boot, now, fs, handled, call>>

\* lines 249-258: the existence check and the caption
Assemble(t) ==
    /\ pc[t] = "assemble"
    /\ IF loc[t].video_filepath \in fs /\ loc[t].final_recipe_text = None
       THEN /\ loc' = loc                                   \* len(None) raises
            /\ pc' = [pc EXCEPT ![t] = "except"]
       ELSE IF loc[t].video_filepath \in fs
       THEN /\ loc' = [loc EXCEPT ![t].final_caption =
                          Some(final_caption(loc[t].final_recipe_text[1]))]
            /\ pc' = [pc EXCEPT ![t] = "send_formatted"]
       ELSE /\ loc' = [loc EXCEPT ![t].delivery = "skipped"]
            /\ pc' = [pc EXCEPT ![t] = "cleanup_video"]
    /\ UNCHANGED <<env, boot, now, fs, handled, log, call>>

\* lines 260-270: open() raises when the file is gone; else the first attempt
SendFormattedThenPlain(t) ==
    /\ pc[t] = "send_formatted"
    /\ IF loc[t].video_filepath \notin fs
       THEN /\ pc' = [pc EXCEPT ![t] = "except"]
            /\ UNCHANGED <<loc, log>>
       ELSE /\ log' = [log EXCEPT ![t] =
                          Append(@, Sent("send_formatted", loc[t].final_caption[1]))]
            /\ \E accepted \in BOOLEAN :
                 IF accepted
                 THEN /\ loc' = [loc EXCEPT ![t].delivery = "formatted"]
                      /\ pc' = [pc EXCEPT ![t] = "send_plain"]
                 ELSE /\ loc' = loc
                      /\ pc' = [pc EXCEPT ![t] = "send_plain"]
    /\ UNCHANGED <<env, boot, now, fs, handled, call>>
SendFormatted(t) ==
    /\ pc[t] = "send_formatted"
    /\ IF loc[t].video_filepath \notin fs
       THEN /\ pc' = [pc EXCEPT ![t] = "except"]
            /\ UNCHANGED <<loc, log>>
       ELSE /\ log' = [log EXCEPT ![t] =
                          Append(@, Sent("send_formatted", loc[t].final_caption[1]))]
            /\ \E accepted \in BOOLEAN :
                 IF accepted
                 THEN /\ loc' = [loc EXCEPT ![t].delivery = "formatted"]
                      /\ pc' = [pc EXCEPT ![t] = "cleanup_video"]
                 ELSE /\ loc' = loc
                      /\ pc' = [pc EXCEPT ![t] = "send_plain"]
    /\ UNCHANGED <<env, boot, now, fs, handled, call>>

\* lines 270-280: the second attempt, with the raw text
SendPlain(t) ==
    /\ pc[t] = "send_plain"
    /\ log' = [log EXCEPT ![t] =
                  Append(@, Sent("send_plain", loc[t].final_recipe_text[1]))]
    /\ \E accepted \in BOOLEAN :
         IF accepted
         THEN /\ loc' = [loc EXCEPT ![t].delivery = "plain"]
              /\ pc' = [pc EXCEPT ![t] = "cleanup_video"]
         ELSE /\ loc' = [loc EXCEPT ![t].delivery = "failed"]
              /\ pc' = [pc EXCEPT ![t] = "except"]
    /\ UNCHANGED <<env, boot, now, fs, handled, call>>

\* lines 281-282
Except(t) ==
    /\ pc[t] = "except"
    /\ log' = [log EXCEPT ![t] = Append(@, Reply("unexpected_error"))]
    /\ pc' = [pc EXCEPT ![t] = "cleanup_video"]
    /\ UNCHANGED <<env, boot, now, fs, handled, loc, call>>

\* line 285: os.path.exists(video.filepath).  The run has no use for its files
\* any more: the record of which of them it wrote ends here.
CleanupVideo(t) ==
    /\ pc[t] = "cleanup_video"
    /\ pc' = [pc EXCEPT ![t] = IF loc[t].video_filepath \in fs
                               THEN "remove_video" ELSE "cleanup_audio"]
    /\ loc' = [loc EXCEPT ![t].video_made = FALSE, ![t].audio_made = FALSE]
    /\ UNCHANGED <<env, boot, now, fs, handled, log, call>>

\* line 286: os.remove raises when the file is gone, and the run ends there
RemoveVideo(t) ==
    /\ pc[t] = "remove_video"
    /\ IF loc[t].video_filepath \in fs
       THEN /\ fs' = fs \ {loc[t].video_filepath}
            /\ pc' = [pc EXCEPT ![t] = "cleanup_audio"]
            /\ loc' = loc
       ELSE /\ fs' = fs
            /\ pc' = [pc EXCEPT ![t] = "done"]
            /\ loc' = [loc EXCEPT ![t].raised = TRUE]
    /\ UNCHANGED <<env, boot, now, handled, log, call>>

\* line 287
CleanupAudio(t) ==
    /\ pc[t] = "cleanup_audio"
    /\ pc' = [pc EXCEPT ![t] = IF loc[t].audio_filepath \in fs
                               THEN "remove_audio" ELSE "done"]
    /\ UNCHANGED <<env, boot, now, fs, handled, loc, log, call>>

\* line 288
RemoveAudio(t) ==
    /\ pc[t] = "remove_audio"
    /\ IF loc[t].audio_filepath \in fs
       THEN /\ fs' = fs \ {loc[t].audio_filepath}
            /\ loc' = loc
       ELSE /\ fs' = fs
            /\ loc' = [loc EXCEPT ![t].raised = TRUE]
    /\ pc' = [pc EXCEPT ![t] = "done"]
    /\ UNCHANGED <<env, boot, now, handled, log, call>>

Run(t) ==
    \/ HandleMessage(t)
    \/ DownloadVideo(t)
    \/ Refine(t)
    \/ Convert(t)
    \/ DownloadAudio(t)
    \/ AnalyzeBegin(t)
    \/ AnalyzePoll(t)
    \/ AnalyzeGenerate(t)
    \/ Combine(t)
    \/ Assemble(t)
    \/ SendFormatted(t)
    \/ SendPlain(t)
    \/ Except(t)
    \/ CleanupVideo(t)
    \/ RemoveVideo(t)
    \/ CleanupAudio(t)
    \/ RemoveAudio(t)

Next == Main \/ \E t \in Threads : Run(t)

Spec == Init /\ [][Next]_vars

---------------------------------------------------------------------------
(* Direct calls: the module is imported, no bot is polling, and one of its *)
(* functions (or the caption code of process_url) is applied to an input.  *)

Functions ==
    {"refine_with_gemini", "convert_recipe_to_metric",
     "analyze_audio_with_gemini", "combine_recipe_and_audio"}

CallInputs ==
    {[NoCall EXCEPT !.fn = "final_caption", !.arg = Text("f", n)] : n \in 0..MaxTextLen}
    \cup {[NoCall EXCEPT !.fn = f, !.arg = Text("d", ShortLen)] : f \in Functions}

InitCalls ==
    /\ env \in [tools : {TRUE}, token : {TRUE}, key : BOOLEAN]
    /\ boot = "imported"
    /\ now = 0
    /\ fs = {}
    /\ handled = 0
    /\ pc = [t \in Threads |-> "idle"]
    /\ loc = [t \in Threads |-> NoLocals]
    /\ log = [t \in Threads |-> <<>>]
    /\ call \in CallInputs

Pending(fn) == call.fn = fn /\ call.ret = Unset

CallCaption ==
    /\ Pending("final_caption")
    /\ call' = [call EXCEPT !.ret = Some(final_caption(call.arg))]
    /\ UNCHANGED <<env, boot, now, fs, handled, pc, loc, log>>

CallRefine ==
    /\ Pending("refine_with_gemini")
    /\ \E remote \in RefineRemotes :
         call' = [call EXCEPT !.ret = refine_with_gemini(env.key, remote),
                              !.fault = remote \in Failures]
    /\ UNCHANGED <<env, boot, now, fs, handled, pc, loc, log>>

CallConvert ==
    /\ Pending("convert_recipe_to_metric")
    /\ \E remote \in ConvertRemotes :
         call' = [call EXCEPT !.ret = convert_recipe_to_metric(env.key, remote),
                              !.fault = remote \in Failures]
    /\ UNCHANGED <<env, boot, now, fs, handled, pc, loc, log>>

CallCombine ==
    /\ Pending("combine_recipe_and_audio")
    /\ \E remote \in CombineRemotes :
         call' = [call EXCEPT !.ret = combine_recipe_and_audio(env.key, remote),
                              !.fault = remote \in Failures]
    /\ UNCHANGED <<env, boot, now, fs, handled, pc, loc, log>>

\* the call is at frame fr; `fault` says whether the last request failed
CallAnalyzed(fr, fault) ==
    call' = [call EXCEPT !.frame = fr,
                         !.fault = @ \/ fault,
                         !.ret = IF fr.at = "returned" THEN fr.ret ELSE @]

CallAnalyzeBegin ==
    /\ Pending("analyze_audio_with_gemini")
    /\ call.frame.at = "none"
    /\ \E up \in UploadOutcomes :
         CallAnalyzed(analyze_begin(env.key, up), up = UploadError)
    /\ UNCHANGED <<env, boot, now, fs, handled, pc, loc, log>>

CallAnalyzePoll ==
    /\ Pending("analyze_audio_with_gemini")
    /\ InLoop(call.frame)
    /\ \E got \in UploadOutcomes :
         /\ call.frame.polls + 1 >= MaxPolls => got # Uploaded("PROCESSING")
         /\ CallAnalyzed(analyze_poll(call.frame, got), got = UploadError)
    /\ UNCHANGED <<env, boot, now, fs, handled, pc, loc, log>>

CallAnalyzeGenerate ==
    /\ Pending("analyze_audio_with_gemini")
    /\ PastLoop(call.frame)
    /\ \E remote \in NotesRemotes :
         CallAnalyzed(analyze_generate(call.frame, remote),
                      call.frame.state = "FAILED" \/ remote \in Failures)
    /\ UNCHANGED <<env, boot, now, fs, handled, pc, loc, log>>

NextCalls ==
    \/ CallCaption
    \/ CallRefine
    \/ CallConvert
    \/ CallCombine
    \/ CallAnalyzeBegin
    \/ CallAnalyzePoll
    \/ CallAnalyzeGenerate

SpecCalls == InitCalls /\ [][NextCalls]_vars

---------------------------------------------------------------------------
(* One run followed to its end.  The bot is polling and has one message    *)
(* still to come.  The wait loop of the audio analysis is followed as the  *)
(* code runs it, turn after turn for as long as the file is PROCESSING: a  *)
(* turn is the sleep (line 117) and then the get_file request (line 118).  *)
(* The frame counts the polls and keeps the requests up to MaxPolls; the   *)
(* turns after that leave the count as it is.                              *)

\* lines 115-118: one get_file of a loop that may go on
analyze_poll_uncounted(fr, got) ==
    IF fr.polls < MaxPolls THEN analyze_poll(fr, got)
    ELSE IF got.kind # "file" THEN AnalyzeReturned(fr.reqs, fr.polls, None)
    ELSE [fr EXCEPT !.state = got.state]

\* lines 115-117: the file is PROCESSING, the thread sleeps
Sleep(t) ==
    /\ pc[t] = "analyze"
    /\ InLoop(loc[t].analysis)
    /\ loc' = [loc EXCEPT ![t].analysis.at = "sleep"]
    /\ UNCHANGED <<env, boot, now, fs, handled, pc, log, call>>

\* line 118, and back to the test of line 115
PollAgain(t) ==
    /\ pc[t] = "analyze"
    /\ loc[t].analysis.at = "sleep"
    /\ \E got \in UploadOutcomes :
         Analyzed(t, analyze_poll_uncounted([loc[t].analysis EXCEPT !.at = "poll"], got))
    /\ UNCHANGED <<env, boot, now, fs, handled, log, call>>

InitLive ==
    /\ env = [tools |-> TRUE, token |-> TRUE, key |-> TRUE]
    /\ boot = "polling"
    /\ now = 0
    /\ fs = {}
    /\ handled = MaxMessages - 1
    /\ pc = [t \in Threads |-> "idle"]
    /\ loc = [t \in Threads |-> NoLocals]
    /\ log = [t \in Threads |->
                 IF t = 1 /\ MaxMessages > 1 THEN <<Reply("no_url")>> ELSE <<>>]
    /\ call = NoCall

RunLive(t) ==
    \/ HandleMessage(t)
    \/ DownloadVideo(t)
    \/ Refine(t)
    \/ Convert(t)
    \/ DownloadAudio(t)
    \/ AnalyzeBegin(t)
    \/ Sleep(t)
    \/ PollAgain(t)
    \/ AnalyzeGenerate(t)
    \/ Combine(t)
    \/ Assemble(t)
    \/ SendFormatted(t)
    \/ SendPlain(t)
    \/ Except(t)
    \/ CleanupVideo(t)
    \/ RemoveVideo(t)
    \/ CleanupAudio(t)
    \/ RemoveAudio(t)

NextLive == \E t \in Threads : RunLive(t)

\* a worker thread that can take a step of its handler takes one in the end
Fairness == \A t \in Threads : WF_vars(RunLive(t))

SpecLive == InitLive /\ [][NextLive]_vars /\ Fairness

---------------------------------------------------------------------------
(* Properties *)

Returned(fn) == call.fn = fn /\ call.ret # Unset
Inner(c) == SubSeq(c, Len(Fence) + 1, Len(c) - Len(Fence))
NoneCalled(l, fns) == \A f \in fns : ~HasCall(l, f)
ConvertedTexts == {Some(r.text) : r \in {x \in ConvertRemotes : x.kind = "text" /\ x.text # ""}}

\* C1: for every final recipe text longer than 1024, the formatted caption is a
\* prefix of the text followed by the truncation marker, wrapped in the two
\* markers; its total length is at most 1024 and what stands between the
\* markers ends with "...(truncated)".
C1_TruncatedCaptionFits ==
    (Returned("final_caption") /\ Len(call.arg) > max_len) =>
        LET c == call.ret[1]
            body == Inner(c)
        IN /\ Len(c) <= max_len
           /\ c = Fence \o body \o Fence
           /\ EndsWith(body, "...(truncated)")
           /\ body = Prefix(call.arg, Len(body) - Len(TruncMarker)) \o TruncMarker

C1_Witness ==
    Returned("final_caption") /\ Len(call.arg) = max_len + 1

\* C2: the formatted caption handed to the first send_video attempt of a run
\* never exceeds 1024 characters, whatever the length of the final recipe text.
C2_FormattedCaptionFits ==
    \A t \in Threads : \A i \in 1..Len(log[t]) :
        log[t][i][1] = "send_formatted" => Len(log[t][i][2]) <= max_len

\* C3: for every final recipe text of length at most 1024, the formatted caption
\* is the opening marker, the whole text unchanged, and the closing marker.
C3_ShortCaptionIsWholeText ==
    (Returned("final_caption") /\ Len(call.arg) <= max_len) =>
        call.ret = Some(Fence \o call.arg \o Fence)

C3_Witness ==
    Returned("final_caption") /\ Len(call.arg) = max_len

\* C4: in a run whose video download failed, no language-model operation is
\* called, no audio is downloaded, no video is sent, and the one failure reply
\* the user gets is that of the download.
C4_DownloadFailureStops ==
    \A t \in Threads :
        loc[t].download_status = "failed" =>
            /\ NoneCalled(log[t], Functions \cup {"download_audio"})
            /\ Sends(log[t]) = <<>>
            /\ Failed(log[t]) = <<Reply("download_failed")>>

C4_Witness ==
    \E t \in Threads : pc[t] = "done" /\ loc[t].download_status = "failed"

\* C5: in a run whose video download succeeded with an absent or empty
\* description, refine_with_gemini and every later stage are never called, the
\* user gets the missing-description failure reply, and no media is sent.
C5_NoDescriptionStops ==
    \A t \in Threads :
        (loc[t].download_status = "success" /\ ~Truthy(loc[t].description)) =>
            /\ NoneCalled(log[t], Functions \cup {"download_audio"})
            /\ Sends(log[t]) = <<>>
            /\ Failed(log[t]) = <<Reply("no_description")>>

C5_Witness ==
    \E t \in Threads :
        /\ pc[t] = "done"
        /\ loc[t].download_status = "success"
        /\ loc[t].description = Some("")

\* C6 (as claimed): a finished run in which every language-model call failed has
\* the original description as its final recipe text.
C6_FallbackIsDescription ==
    \A t \in Threads :
        (pc[t] = "done" /\ loc[t].refined_recipe = None) =>
            loc[t].final_recipe_text = loc[t].description

\* C6 (amended): a run in which the language-model calls fail has no final
\* recipe text at all, on each run: it stops at the refinement, builds no
\* caption and delivers nothing; the description is not used as a fallback.
C6_NoFallbackText ==
    \A t \in Threads :
        loc[t].refined_recipe = None =>
            /\ loc[t].final_recipe_text = Unset
            /\ loc[t].final_caption = Unset
            /\ loc[t].delivery = "none"
            /\ Failed(log[t]) = <<Reply("refine_failed")>>

C6_Witness ==
    \A t \in Threads :
        /\ pc[t] = "done"
        /\ Truthy(loc[t].description)
        /\ loc[t].refined_recipe = None

\* C7: in a run whose refine call returned None or an empty text, the user gets
\* the refinement failure reply, no conversion, audio download, audio analysis
\* or merge follows, and send_video is never called.
C7_RefineFailureIsHard ==
    \A t \in Threads :
        (loc[t].refined_recipe # Unset /\ ~Truthy(loc[t].refined_recipe)) =>
            /\ Failed(log[t]) = <<Reply("refine_failed")>>
            /\ NoneCalled(log[t], (Functions \ {"refine_with_gemini"})
                                      \cup {"download_audio"})
            /\ Sends(log[t]) = <<>>
            /\ pc[t] \in {"cleanup_video", "remove_video", "cleanup_audio",
                          "remove_audio", "done"}

C7_Witness ==
    \E t \in Threads : pc[t] = "done" /\ loc[t].refined_recipe = Some("")

\* C8: in a run whose refinement returned text and whose audio download failed,
\* the final recipe text is the converted recipe, or the refined recipe when
\* the conversion returned none; it is a non-empty text, and neither the audio
\* analysis nor the merge is called.
C8_AudioFailureKeepsMetric ==
    \A t \in Threads :
        loc[t].audio_download_status = "failed" =>
            /\ Truthy(loc[t].final_recipe_text)
            /\ loc[t].final_recipe_text = loc[t].metric_recipe
            /\ IF loc[t].converted
               THEN loc[t].final_recipe_text \in ConvertedTexts
               ELSE loc[t].final_recipe_text = loc[t].refined_recipe
            /\ NoneCalled(log[t], {"analyze_audio_with_gemini",
                                   "combine_recipe_and_audio"})

C8_Witness ==
    \E t \in Threads :
        /\ pc[t] = "done"
        /\ loc[t].audio_download_status = "failed"
        /\ ~loc[t].converted
        /\ loc[t].delivery = "formatted"

\* C9: at the moment a run of process_url returns, no file exists at its video
\* path and none at its audio path.
C9_NoFilesAtReturn ==
    [][\A t \in Threads :
          (pc[t] # "done" /\ pc'[t] = "done") =>
              /\ loc'[t].video_filepath \notin fs'
              /\ loc'[t].audio_filepath \notin fs']_vars

\* C10: each of the four language-model operations returns None whenever the
\* credential is missing or a remote request of the call failed.
C10_FailureReturnsNone ==
    \A f \in Functions :
        (Returned(f) /\ (~env.key \/ call.fault)) => call.ret = None

\* C11: once the refinement has returned a usable text, whatever the
\* conversion, the audio download, the audio analysis and the merge do, the run
\* sends no failure reply before the assembly, does not leave the pipeline
\* before it (every later position has been through the assembly), and comes
\* to the assembly with the most refined text obtained: the merged recipe, else
\* the converted one, else the refined one.
BeforeAssembly == {"convert", "download_audio", "analyze", "combine"}

BestText(l) ==
    IF Truthy(l.combined_recipe) THEN l.combined_recipe
    ELSE IF l.converted THEN l.metric_recipe
    ELSE l.refined_recipe

C11_SoftFailuresReachAssembly ==
    \A t \in Threads :
        Truthy(loc[t].refined_recipe) =>
            /\ pc[t] \in BeforeAssembly \cup {"assemble"} =>
                   /\ Failed(log[t]) = <<>>
                   /\ Sends(log[t]) = <<>>
            /\ pc[t] = "assemble" =>
                   /\ Truthy(loc[t].final_recipe_text)
                   /\ loc[t].final_recipe_text = BestText(loc[t])
                   /\ loc[t].converted => loc[t].metric_recipe \in ConvertedTexts
            /\ pc[t] \notin BeforeAssembly \cup {"assemble"} =>
                   /\ loc[t].final_caption # Unset \/ loc[t].delivery = "skipped"
                   /\ loc[t].final_recipe_text = BestText(loc[t])

\* every soft stage was called and returned nothing usable
C11_Witness ==
    \E t \in Threads :
        /\ pc[t] = "assemble"
        /\ Truthy(loc[t].refined_recipe)
        /\ ~loc[t].converted
        /\ loc[t].audio_download_status = "success"
        /\ Truthy(loc[t].audio_notes)
        /\ loc[t].combined_recipe = None

\* C12: the first send_video attempt of a run carries the formatted caption;
\* a second attempt is made exactly when the first one raised, once, with the
\* raw final recipe text; when the second raises too the user gets the
\* unexpected-error reply; a run makes at most two attempts and none after a
\* first one that succeeded.
C12_RetryOnceWithPlainCaption ==
    \A t \in Threads :
        LET s == Sends(log[t])
            d == loc[t].delivery
        IN /\ Len(s) <= 2
           /\ Len(s) >= 1 => s[1] = Sent("send_formatted", loc[t].final_caption[1])
           /\ Len(s) = 2 => s[2] = Sent("send_plain", loc[t].final_recipe_text[1])
           /\ pc[t] = "send_plain" => (Len(s) = 1 /\ d = "none")
           /\ d = "formatted" => Len(s) = 1
           /\ (Len(s) = 1 /\ d # "formatted") => pc[t] = "send_plain"
           /\ Len(s) = 2 <=> d \in {"plain", "failed"}
           /\ (d = "failed" /\ pc[t] # "except") =>
                  Failed(log[t]) = <<Reply("unexpected_error")>>
           /\ d \in {"formatted", "plain"} => Failed(log[t]) = <<>>

C12_Witness ==
    \E t \in Threads : pc[t] = "done" /\ loc[t].delivery = "failed"

\* C13: two assets created by distinct invocations of process_url never have
\* the same local path: the Video assets of two runs have different paths, and
\* so have their Audio assets, also when both runs are for the same chat and
\* started within the same clock second.
HasAssets(t) == loc[t].chat_id # 0

C13_PathsNeverReused ==
    \A t, u \in Threads :
        (t # u /\ HasAssets(t) /\ HasAssets(u)) =>
            /\ loc[t].video_filepath # loc[u].video_filepath
            /\ loc[t].audio_filepath # loc[u].audio_filepath

\* C14: concurrent runs do not touch each other's files: while a run is between
\* its video download and the end of its delivery, no step of another run
\* deletes, and no download of another run writes over, a video or audio file
\* that the run's own download wrote and that is still there.
Undelivered(u) ==
    pc[u] \in BeforeAssembly \cup {"refine", "assemble", "send_formatted", "send_plain"}

OwnVideo(u) == loc[u].video_made /\ loc[u].video_filepath \in fs
OwnAudio(u) == loc[u].audio_made /\ loc[u].audio_filepath \in fs

NoDeletion(t, u) ==
    /\ OwnVideo(u) => loc[u].video_filepath \in fs'
    /\ OwnAudio(u) => loc[u].audio_filepath \in fs'

NoOverwrite(t, u) ==
    /\ OwnVideo(u) => ~ /\ pc[t] = "download_video"
                         /\ loc'[t].video_made
                         /\ loc[t].video_filepath = loc[u].video_filepath
    /\ OwnAudio(u) => ~ /\ pc[t] = "download_audio"
                         /\ loc'[t].audio_made
                         /\ loc[t].audio_filepath = loc[u].audio_filepath

C14_RunsDoNotInterfere ==
    [][\A t, u \in Threads :
          (t # u /\ pc'[t] # pc[t] /\ Undelivered(u)) =>
              (NoDeletion(t, u) /\ NoOverwrite(t, u))]_vars

\* C15: within one run the stages come in the order video download, refine,
\* convert, audio download, audio analysis, merge, delivery, cleanup: every
\* call or send of a run comes later in that order than each call and send the
\* run has made before (so none is out of order or repeated), a stage is
\* called only when the stage before it has returned, and once the cleanup has
\* begun the run calls, sends and replies nothing more and only goes on to its
\* end.
Rank(e) ==
    CASE e = Called("download_video") -> 1
      [] e = Called("refine_with_gemini") -> 2
      [] e = Called("convert_recipe_to_metric") -> 3
      [] e = Called("download_audio") -> 4
      [] e = Called("analyze_audio_with_gemini") -> 5
      [] e = Called("combine_recipe_and_audio") -> 6
      [] e[1] = "send_formatted" -> 7
      [] e[1] = "send_plain" -> 8
      [] OTHER -> 0

\* the entries of l from position k on rank above every entry before them
InOrderFrom(l, k) ==
    \A j \in k..Len(l) :
        Rank(l[j]) > 0 => \A i \in 1..(j - 1) : Rank(l[i]) < Rank(l[j])

\* a step of a run appends to its log; a new run starts a new log
NewEntries(old, new) ==
    IF Len(new) >= Len(old) /\ SubSeq(new, 1, Len(old)) = old
    THEN Len(old) + 1 ELSE 1

EachAfterTheLast(l, v) ==
    /\ HasCall(l, "refine_with_gemini") => v.download_status = "success"
    /\ HasCall(l, "convert_recipe_to_metric") => Truthy(v.refined_recipe)
    /\ HasCall(l, "download_audio") => v.metric_recipe # Unset
    /\ HasCall(l, "analyze_audio_with_gemini") => v.audio_download_status = "success"
    /\ HasCall(l, "combine_recipe_and_audio") =>
           (v.audio_notes # Unset /\ v.analysis = NoFrame)
    /\ Sends(l) # <<>> => (v.final_recipe_text # Unset /\ v.final_caption # Unset)

CleanupPositions == {"cleanup_video", "remove_video", "cleanup_audio", "remove_audio"}

Moved(t) == pc'[t] # pc[t] \/ loc'[t] # loc[t] \/ log'[t] # log[t]

C15_StagesInFixedOrder ==
    [][\A t \in Threads :
          Moved(t) =>
              /\ InOrderFrom(log'[t], NewEntries(log[t], log'[t]))
              /\ EachAfterTheLast(log'[t], loc'[t])
              /\ pc[t] \in CleanupPositions =>
                     /\ pc'[t] \in CleanupPositions \cup {"done"}
                     /\ log'[t] = log[t]]_vars

\* a run that went through every stage, both send attempts included
C15_Witness ==
    \E t \in Threads :
        /\ pc[t] = "done"
        /\ Len(Sends(log[t])) = 2
        /\ Len(Calls(log[t])) = 6

\* C16: combine_recipe_and_audio is called only in a run whose audio download
\* reported success and whose audio analysis returned non-empty notes; it is
\* given the metric recipe (the converted recipe, or the refined one when the
\* conversion gave none) and those notes; when it returns no usable text the
\* final recipe text is that metric recipe.
C16_MergeOnlyWithNotes ==
    \A t \in Threads :
        HasCall(log[t], "combine_recipe_and_audio") =>
            /\ loc[t].audio_download_status = "success"
            /\ Truthy(loc[t].audio_notes)
            /\ loc[t].combine_args = <<loc[t].metric_recipe, loc[t].audio_notes>>
            /\ IF loc[t].converted
               THEN loc[t].metric_recipe \in ConvertedTexts
               ELSE loc[t].metric_recipe = loc[t].refined_recipe
            /\ ~Truthy(loc[t].combined_recipe) =>
                   loc[t].final_recipe_text = loc[t].metric_recipe

C16_Witness ==
    \E t \in Threads :
        /\ HasCall(log[t], "combine_recipe_and_audio")
        /\ loc[t].converted
        /\ loc[t].combined_recipe = Some("")
        /\ loc[t].delivery = "formatted"

\* C17: in analyze_audio_with_gemini the generation request is issued only
\* from a frame whose last observed file state is not PROCESSING (and not
\* FAILED), once, as the last request; from a frame whose state is PROCESSING
\* the one thing the call does is one more get_file request, at every poll
\* count, and it stays in the loop when that request reports PROCESSING again;
\* when the state that ends the loop is FAILED the call returns None and has
\* issued no generation request.
Count(q, x) == Len(SelectSeq(q, LAMBDA e : e = x))

C17_GenerateOnlyAfterProcessing ==
    [][(call.fn = "analyze_audio_with_gemini" /\ call'.frame # call.frame) =>
          LET fr == call.frame
              to == call'.frame
          IN /\ Count(to.reqs, "generate_content") > Count(fr.reqs, "generate_content") =>
                   /\ PastLoop(fr) /\ fr.state = "ACTIVE"
                   /\ to.reqs = Append(fr.reqs, "generate_content")
                   /\ Count(fr.reqs, "generate_content") = 0
                   /\ to.at = "returned"
             /\ InLoop(fr) =>
                   /\ to.reqs = Append(fr.reqs, "get_file")
                   /\ to.polls = fr.polls + 1
                   /\ InLoop(to) \/ PastLoop(to) \/ (to.at = "returned" /\ to.ret = None)
             /\ (PastLoop(fr) /\ fr.state = "FAILED") =>
                   /\ to.at = "returned" /\ to.ret = None
                   /\ to.reqs = fr.reqs
                   /\ Count(to.reqs, "generate_content") = 0]_vars

\* the loop went round and the file is PROCESSING still
C17_Witness ==
    /\ call.fn = "analyze_audio_with_gemini"
    /\ InLoop(call.frame)
    /\ call.frame.polls = MaxPolls - 1

\* C18: every run whose refinement returned a usable text (it is at the
\* conversion then) comes to the assembly and then to its end, through the
\* cleanup; no run stays in an intermediate stage for ever.
C18_RunsComplete ==
    \A t \in Threads :
        /\ (pc[t] = "convert") ~> (pc[t] = "assemble")
        /\ (pc[t] = "convert") ~> (pc[t] = "done")

\* C19: a run that has its final recipe text and has no file at the path of
\* its video when it comes to deliver (the check of line 249 finds none, or
\* the file is gone when line 260 opens it) never calls send_video and sends
\* no failure reply: the two status replies are all the user gets from it.
FoundNoVideo(t) == loc[t].delivery = "skipped"

OpenedNoVideo(t) ==
    /\ loc[t].final_caption # Unset
    /\ Sends(log[t]) = <<>>
    /\ pc[t] \in CleanupPositions \cup {"done"}

C19_MissingVideoIsSilent ==
    \A t \in Threads :
        (FoundNoVideo(t) \/ OpenedNoVideo(t)) =>
            /\ Truthy(loc[t].final_recipe_text)
            /\ Sends(log[t]) = <<>>
            /\ Failed(log[t]) = <<>>
            /\ Replies(log[t]) = <<Reply("fetching"), Reply("refining")>>

\* C20: every caption given to send_video by a run, that of the first attempt
\* and the plain one of the second attempt alike, has at most 1024 characters.
C20_EveryCaptionFits ==
    \A t \in Threads :
        LET s == Sends(log[t])
        IN \A i \in 1..Len(s) : Len(s[i][2]) <= max_len

====
